---------------------------- MODULE Spec2Model ----------------------------
(***************************************************************************)
(* A model of leitor_fatura_elektroneoenergia.py: the invoice text         *)
(* extractor (tokenizer, sanitizer, line classifier and row builder), the  *)
(* row fingerprint and the batch driver main().                            *)
(*                                                                         *)
(* A Python str is a sequence of characters; a character is a one-element  *)
(* string ("a", "1", " "), and a character outside ASCII is written by its *)
(* name ("Ccedil").  The regular expressions of the source are kept as     *)
(* syntax trees and run by a backtracking matcher with Python's priority   *)
(* order (Ends), so that what a pattern matches is computed, not assumed.  *)
(***************************************************************************)
EXTENDS Integers, Sequences, FiniteSets, TLC

VARIABLES
    \* extract_numbers_ignoring_percent_and_codes, one NUM_RE match at a time
    line, tpos, nums, tspans, tpc,
    \* extrair_dados_fatura_bytes: its argument, its locals and its position
    pdf, texto_completo, linhas, idx, epc, desc, valores_linha, v_taxa, itens_lista,
    vencimento, total_fatura_pdf, bandeira_raw, bandeira_desc_1, bandeira_desc_2,
    saldo_mes, saldo_acumulado, saldo_expirar,
    \* history: where each row of itens_lista came from, and the lines that raised
    origin, failed,
    \* to_supabase_rows: its argument, its result and its position
    hrows, hout, hpc,
    \* main: the listing, the loop over it, the rows and the batches of the upsert
    mpc, pdfs, doc_i, consolidado, rows, batch_size, batch_i, total, sent, outcome,
    \* history: the requests main has made, in order
    requests

tokVars == <<line, tpos, nums, tspans, tpc>>
docVars ==
    <<vencimento, total_fatura_pdf, bandeira_raw, bandeira_desc_1, bandeira_desc_2,
      saldo_mes, saldo_acumulado, saldo_expirar>>
extVars ==
    <<pdf, texto_completo, linhas, idx, epc, desc, valores_linha, v_taxa, itens_lista,
      docVars, origin, failed>>
hashVars == <<hrows, hout, hpc>>
mainVars ==
    <<mpc, pdfs, doc_i, consolidado, rows, batch_size, batch_i, total, sent, outcome,
      requests>>
vars == <<tokVars, extVars, hashVars, mainVars>>

---------------------------------------------------------------------------
(* Characters                                                              *)

Digits == {"0", "1", "2", "3", "4", "5", "6", "7", "8", "9"}

LowerSeq ==
    <<"a", "b", "c", "d", "e", "f", "g", "h", "i", "j", "k", "l", "m",
      "n", "o", "p", "q", "r", "s", "t", "u", "v", "w", "x", "y", "z",
      "ccedil", "atilde", "aacute", "ecirc">>

UpperSeq ==
    <<"A", "B", "C", "D", "E", "F", "G", "H", "I", "J", "K", "L", "M",
      "N", "O", "P", "Q", "R", "S", "T", "U", "V", "W", "X", "Y", "Z",
      "Ccedil", "Atilde", "Aacute", "Ecirc">>

NLetters == Len(LowerSeq)

Lowers == {LowerSeq[k] : k \in 1..NLetters}
Uppers == {UpperSeq[k] : k \in 1..NLetters}
Letters == Lowers \cup Uppers
AsciiLower == {LowerSeq[k] : k \in 1..26}
AsciiUpper == {UpperSeq[k] : k \in 1..26}
Spaces == {" ", "\t", "\n", "\r"}
WordChars == Letters \cup Digits \cup {"_"}

\* str.upper() on one character
UpperCh(c) ==
    IF c \in Lowers
    THEN UpperSeq[CHOOSE k \in 1..NLetters : LowerSeq[k] = c]
    ELSE c

\* str.upper()
Upper(s) == [k \in 1..Len(s) |-> UpperCh(s[k])]

\* s[i] with "" outside the string (1-based)
At(s, i) == IF i >= 1 /\ i <= Len(s) THEN s[i] ELSE ""

is_letter(ch) == ch # "" /\ ch \in Letters

\* s[i:j] of Python for 1-based i and exclusive end j
Slice(s, i, j) ==
    LET a == IF i < 1 THEN 1 ELSE i
        b == IF j - 1 > Len(s) THEN Len(s) ELSE j - 1
    IN  IF b < a THEN <<>> ELSE SubSeq(s, a, b)

\* sub in s
StartsAt(s, sub, i) ==
    /\ i + Len(sub) - 1 <= Len(s)
    /\ \A k \in 1..Len(sub) : s[i + k - 1] = sub[k]

Contains(s, sub) == \E i \in 1..(Len(s) - Len(sub) + 1) : StartsAt(s, sub, i)

RECURSIVE LStripFrom(_, _)
LStripFrom(s, i) ==
    IF i <= Len(s) /\ s[i] \in Spaces THEN LStripFrom(s, i + 1) ELSE i

RECURSIVE RStripTo(_, _)
RStripTo(s, j) == IF j >= 1 /\ s[j] \in Spaces THEN RStripTo(s, j - 1) ELSE j

\* str.strip()
Strip(s) == Slice(s, LStripFrom(s, 1), RStripTo(s, Len(s)) + 1)

---------------------------------------------------------------------------
(* Regular expressions: syntax trees and a backtracking matcher.           *)
(* Ends(r, s, i) is the sequence of positions where a match of r that      *)
(* starts at i can end, in the order in which Python's engine tries them;  *)
(* its head is the end of the match the engine reports.                    *)

RSet(S) == [t |-> "set", s |-> S]
RLit(c) == [t |-> "set", s |-> {c}]
\* a literal letter under re.IGNORECASE
RCi(c) == [t |-> "set", s |-> {c, UpperCh(c)}]
RNot(S) == [t |-> "not", s |-> S]
RSeq(xs) == [t |-> "seq", xs |-> xs]
RAlt(xs) == [t |-> "alt", xs |-> xs]
\* x{lo,hi}
RRep(x, lo, hi) ==
    [t |-> "rep", x |-> x, lo |-> lo, hi |-> hi, unbounded |-> FALSE, greedy |-> TRUE]
\* x* and x+
RStar(x) ==
    [t |-> "rep", x |-> x, lo |-> 0, hi |-> 0, unbounded |-> TRUE, greedy |-> TRUE]
RPlus(x) ==
    [t |-> "rep", x |-> x, lo |-> 1, hi |-> 0, unbounded |-> TRUE, greedy |-> TRUE]
\* x*?
RLazyStar(x) ==
    [t |-> "rep", x |-> x, lo |-> 0, hi |-> 0, unbounded |-> TRUE, greedy |-> FALSE]
\* x?
ROpt(x) == RRep(x, 0, 1)
RWb == [t |-> "wb"]
RBol == [t |-> "bol"]
RLook(x) == [t |-> "look", x |-> x]
RDigit == RSet(Digits)
RSpace == RSet(Spaces)
RWord == RSet(WordChars)
\* "." : any character but a line break
RAny == RNot({"\n"})

\* a word of lower-case letters under re.IGNORECASE
RWordCi(w) == RSeq([k \in 1..Len(w) |-> RCi(w[k])])

\* \b at position i
IsWordBoundary(s, i) == (At(s, i - 1) \in WordChars) # (At(s, i) \in WordChars)

\* the characters from i on that the one-character pattern x matches, in a row
RunLength(x, s, i) ==
    LET ok(k) == IF x.t = "set" THEN s[k] \in x.s ELSE s[k] \notin x.s
        stops == {k \in i..Len(s) : ~ok(k)}
    IN  IF stops = {} THEN Len(s) + 1 - i
        ELSE (CHOOSE k \in stops : \A j \in stops : k <= j) - i

\* a repeated one-character pattern: the longest run first (greedy) or last (lazy)
CharRepEnds(r, s, i) ==
    LET run == RunLength(r.x, s, i)
        most == IF r.unbounded \/ run < r.hi THEN run ELSE r.hi
        count == most - r.lo + 1
    IN  IF count <= 0 THEN <<>>
        ELSE [k \in 1..count |-> IF r.greedy THEN i + most - (k - 1) ELSE i + r.lo + (k - 1)]

\* The matcher is one recursive operator over tasks: "ends" (a pattern from i),
\* "seq" (xs[k], xs[k+1], ... in a row from i), "seqover" (the same after each
\* end es[n], es[n+1], ... of xs[k]), "alt" (xs[k], xs[k+1], ... as alternatives
\* from i), "rep" (r.x repeated from i, n repetitions done) and "repover" (the
\* same after each end es[n], es[n+1], ... of one more repetition).
RECURSIVE Run(_, _)
Run(t, s) ==
    CASE t.op = "ends" ->
           LET r == t.r
               i == t.i
           IN  (CASE r.t = "set" ->
                      IF At(s, i) # "" /\ At(s, i) \in r.s THEN <<i + 1>> ELSE <<>>
                 [] r.t = "not" ->
                      IF At(s, i) # "" /\ At(s, i) \notin r.s THEN <<i + 1>> ELSE <<>>
                 [] r.t = "seq" -> Run([op |-> "seq", xs |-> r.xs, k |-> 1, i |-> i], s)
                 [] r.t = "alt" -> Run([op |-> "alt", xs |-> r.xs, k |-> 1, i |-> i], s)
                 [] r.t = "rep" ->
                      IF r.x.t \in {"set", "not"} THEN CharRepEnds(r, s, i)
                      ELSE Run([op |-> "rep", r |-> r, n |-> 0, i |-> i], s)
                 [] r.t = "wb" -> IF IsWordBoundary(s, i) THEN <<i>> ELSE <<>>
                 [] r.t = "bol" -> IF i = 1 THEN <<i>> ELSE <<>>
                 [] r.t = "look" ->
                      IF Run([op |-> "ends", r |-> r.x, i |-> i], s) # <<>>
                      THEN <<i>> ELSE <<>>)
      [] t.op = "seq" ->
           IF t.k > Len(t.xs) THEN <<t.i>>
           ELSE Run([op |-> "seqover", xs |-> t.xs, k |-> t.k, n |-> 1,
                     es |-> Run([op |-> "ends", r |-> t.xs[t.k], i |-> t.i], s)], s)
      [] t.op = "seqover" ->
           IF t.n > Len(t.es) THEN <<>>
           ELSE Run([op |-> "seq", xs |-> t.xs, k |-> t.k + 1, i |-> t.es[t.n]], s)
                \o Run([t EXCEPT !.n = t.n + 1], s)
      [] t.op = "alt" ->
           IF t.k > Len(t.xs) THEN <<>>
           ELSE Run([op |-> "ends", r |-> t.xs[t.k], i |-> t.i], s)
                \o Run([t EXCEPT !.k = t.k + 1], s)
      [] t.op = "rep" ->
           LET more == IF t.r.unbounded \/ t.n < t.r.hi
                       THEN Run([op |-> "repover", r |-> t.r, n |-> t.n, i |-> t.i, m |-> 1,
                                 es |-> Run([op |-> "ends", r |-> t.r.x, i |-> t.i], s)], s)
                       ELSE <<>>
               stop == IF t.n >= t.r.lo THEN <<t.i>> ELSE <<>>
           IN  IF t.r.greedy THEN more \o stop ELSE stop \o more
      [] t.op = "repover" ->
           IF t.m > Len(t.es) THEN <<>>
           ELSE (IF t.es[t.m] > t.i
                 THEN Run([op |-> "rep", r |-> t.r, n |-> t.n + 1, i |-> t.es[t.m]], s)
                 ELSE <<>>)
                \o Run([t EXCEPT !.m = t.m + 1], s)

Ends(r, s, i) == Run([op |-> "ends", r |-> r, i |-> i], s)

\* the first of the ends es, 0 when there is none
FirstEnd(es) == IF es = <<>> THEN 0 ELSE es[1]

\* the end of the match of r at i, 0 when there is none
MatchEnd(r, s, i) == FirstEnd(Ends(r, s, i))

\* the least element of a non-empty set of positions
Leftmost(ks) == CHOOSE k \in ks : \A j \in ks : k <= j

\* the scan of pattern.search: what the engine finds at each start from i on
EndAtEach(r, s, i) == [k \in i..(Len(s) + 1) |-> MatchEnd(r, s, k)]

\* the first start of the scan with a match, as <<start, end>>; <<0, 0>> when none
FirstHit(hits) ==
    IF \A k \in DOMAIN hits : hits[k] = 0 THEN <<0, 0>>
    ELSE <<Leftmost({k \in DOMAIN hits : hits[k] # 0}),
           hits[Leftmost({k \in DOMAIN hits : hits[k] # 0})]>>

\* pattern.search(s, from): <<start, end>> of the leftmost match, <<0, 0>> when none
SearchFrom(r, s, i) == FirstHit(EndAtEach(r, s, i))

---------------------------------------------------------------------------
(* NUM_RE and extract_numbers_ignoring_percent_and_codes                   *)

RDecimals == ROpt(RSeq(<<RLit(","), RRep(RDigit, 2, 6)>>))

\* -?\d{1,3}(?:\.\d{3})*(?:,\d{2,6})?
NumGrouped ==
    RSeq(<<ROpt(RLit("-")), RRep(RDigit, 1, 3),
           RStar(RSeq(<<RLit("."), RRep(RDigit, 3, 3)>>)), RDecimals>>)

\* -?\d+(?:,\d{2,6})?
NumPlain == RSeq(<<ROpt(RLit("-")), RPlus(RDigit), RDecimals>>)

NUM_RE == RAlt(<<NumGrouped, NumPlain>>)

\* while j < len(line) and line[j].isspace(): j += 1
RECURSIVE SkipSpaces(_, _)
SkipSpaces(s, j) == IF At(s, j) \in Spaces THEN SkipSpaces(s, j + 1) ELSE j

\* "ignora percentuais": the match ending at e is followed by %
IsPercent(s, e) == At(s, SkipSpaces(s, e)) = "%"

\* "ignora numero colado em letra": the match [i, e) touches a letter
IsGluedToLetter(s, i, e) == is_letter(At(s, i - 1)) \/ is_letter(At(s, e))

\* the tokens of s found from position i on
RECURSIVE NumsFrom(_, _)
NumsFrom(s, i) ==
    LET Visit(m) ==
            IF m[1] = 0 THEN <<>>
            ELSE IF IsPercent(s, m[2]) \/ IsGluedToLetter(s, m[1], m[2])
                 THEN NumsFrom(s, m[2])
                 ELSE <<Slice(s, m[1], m[2])>> \o NumsFrom(s, m[2])
    IN  Visit(SearchFrom(NUM_RE, s, i))

extract_numbers_ignoring_percent_and_codes(s) == NumsFrom(s, 1)

---------------------------------------------------------------------------
(* Helpers of str and re                                                   *)

\* pattern.finditer(s): the <<start, end>> of every match from i on
RECURSIVE FindAllFrom(_, _, _)
FindAllFrom(r, s, i) ==
    LET Visit(m) ==
            IF m[1] = 0 THEN <<>>
            ELSE <<m>> \o FindAllFrom(r, s, IF m[2] > m[1] THEN m[2] ELSE m[2] + 1)
    IN  Visit(SearchFrom(r, s, i))

\* re.sub(pattern, " ", s) from i on
RECURSIVE SubSpaceFrom(_, _, _)
SubSpaceFrom(r, s, i) ==
    LET Visit(m) ==
            IF m[1] = 0 \/ m[2] = m[1] THEN Slice(s, i, Len(s) + 1)
            ELSE Slice(s, i, m[1]) \o <<" ">> \o SubSpaceFrom(r, s, m[2])
    IN  Visit(SearchFrom(r, s, i))

\* re.sub(rs[k], " ", ...) for each pattern of rs in turn, from the k-th on
RECURSIVE SubSpaceEach(_, _, _)
SubSpaceEach(rs, s, k) ==
    IF k > Len(rs) THEN s ELSE SubSpaceEach(rs, SubSpaceFrom(rs[k], s, 1), k + 1)

\* the first e of es where the pattern g matches, as <<e, end of g>>; <<0, 0>> if none
RECURSIVE FirstGroupOver(_, _, _, _)
FirstGroupOver(es, g, s, n) ==
    LET Visit(e) == IF e > 0 THEN <<es[n], e>> ELSE FirstGroupOver(es, g, s, n + 1)
    IN  IF n > Len(es) THEN <<0, 0>> ELSE Visit(MatchEnd(g, s, es[n]))

\* re.search(prefix (group), s).span(1): the pattern is a prefix and one last
\* capturing group, so the engine reports the first end of the prefix, in its
\* backtracking order, after which the group matches
GroupAtEach(prefix, g, s, i) ==
    [k \in i..(Len(s) + 1) |-> FirstGroupOver(Ends(prefix, s, k), g, s, 1)]

FirstGroupHit(hits) ==
    IF \A k \in DOMAIN hits : hits[k][1] = 0 THEN <<0, 0>>
    ELSE hits[Leftmost({k \in DOMAIN hits : hits[k][1] # 0})]

SearchGroupFrom(prefix, g, s, i) == FirstGroupHit(GroupAtEach(prefix, g, s, i))

\* str.split(): the words between runs of white space
RECURSIVE WordEnd(_, _)
WordEnd(s, i) == IF At(s, i) # "" /\ At(s, i) \notin Spaces THEN WordEnd(s, i + 1) ELSE i

RECURSIVE SplitWSFrom(_, _)
SplitWSFrom(s, i) ==
    LET b == SkipSpaces(s, i)
    IN  IF b > Len(s) THEN <<>>
        ELSE <<Slice(s, b, WordEnd(s, b))>> \o SplitWSFrom(s, WordEnd(s, b))

SplitWS(s) == SplitWSFrom(s, 1)

\* sep.join(parts)
RECURSIVE JoinFrom(_, _, _)
JoinFrom(parts, sep, k) ==
    IF k > Len(parts) THEN <<>>
    ELSE IF k = Len(parts) THEN parts[k]
    ELSE parts[k] \o sep \o JoinFrom(parts, sep, k + 1)

Join(parts, sep) == JoinFrom(parts, sep, 1)

\* " ".join(s.split())
CollapseSpaces(s) == Join(SplitWS(s), <<" ">>)

\* s.split(c) for a one-character separator
RECURSIVE IndexOfFrom(_, _, _)
IndexOfFrom(s, c, i) ==
    IF i > Len(s) THEN 0 ELSE IF s[i] = c THEN i ELSE IndexOfFrom(s, c, i + 1)

RECURSIVE SplitCharFrom(_, _, _)
SplitCharFrom(s, c, i) ==
    LET k == IndexOfFrom(s, c, i)
    IN  IF k = 0 THEN <<Slice(s, i, Len(s) + 1)>>
        ELSE <<Slice(s, i, k)>> \o SplitCharFrom(s, c, k + 1)

SplitChar(s, c) == SplitCharFrom(s, c, 1)

---------------------------------------------------------------------------
(* sanitize_line_for_numbers                                               *)

RD12 == RRep(RDigit, 1, 2)
RD4 == RRep(RDigit, 4, 4)

\* \b\d{1,2}/\d{1,2}/\d{4}\b
DateFullRe == RSeq(<<RWb, RD12, RLit("/"), RD12, RLit("/"), RD4, RWb>>)
\* \b\d{1,2}/\d{4}\b
MonthYearRe == RSeq(<<RWb, RD12, RLit("/"), RD4, RWb>>)
\* \b\d{1,2}/\d{1,2}\s*-\s*\d{1,2}/\d{1,2}\b
DayRangeRe ==
    RSeq(<<RWb, RD12, RLit("/"), RD12, RStar(RSpace), RLit("-"), RStar(RSpace),
           RD12, RLit("/"), RD12, RWb>>)
\* \b\d{1,2}/\d{1,2}\b
DayMonthRe == RSeq(<<RWb, RD12, RLit("/"), RD12, RWb>>)

sanitize_line_for_numbers(s) ==
    CollapseSpaces(SubSpaceEach(<<DateFullRe, MonthYearRe, DayRangeRe, DayMonthRe>>, s, 1))

---------------------------------------------------------------------------
(* Document-level fields: due date and total, tariff flag, balances        *)

\* texto: every page's text followed by a line break
RECURSIVE TextoFrom(_, _)
TextoFrom(pages, k) ==
    IF k > Len(pages) THEN <<>> ELSE pages[k] \o <<"\n">> \o TextoFrom(pages, k + 1)

TextoCompleto(pages) == TextoFrom(pages, 1)

\* texto.split("\n")
Linhas(texto) == SplitChar(texto, "\n")

RD2 == RRep(RDigit, 2, 2)
\* \d{2}/\d{2}/\d{4}
DataRe == RSeq(<<RD2, RLit("/"), RD2, RLit("/"), RD4>>)
\* \d{1,3}(?:\.\d{3})*,\d{2}
ValorRe ==
    RSeq(<<RRep(RDigit, 1, 3), RStar(RSeq(<<RLit("."), RRep(RDigit, 3, 3)>>)),
           RLit(","), RD2>>)

IsHeaderLine(linha) == SearchFrom(DataRe, linha, 1)[1] # 0 /\ Contains(linha, <<",">>)

\* for linha in lns[:25]: the first line with a date and a comma, 0 if none
RECURSIVE HeaderIndexFrom(_, _)
HeaderIndexFrom(lns, k) ==
    IF k > Len(lns) \/ k > 25 THEN 0
    ELSE IF IsHeaderLine(lns[k]) THEN k
    ELSE HeaderIndexFrom(lns, k + 1)

LastText(s, ms, default) ==
    IF ms = <<>> THEN default ELSE Slice(s, ms[Len(ms)][1], ms[Len(ms)][2])

\* 1) vencimento e total
HeaderFields(lns) ==
    LET Fields(k) ==
            IF k = 0
            THEN [vencimento |-> <<"N", "/", "A">>, total |-> <<"0", ",", "0", "0">>]
            ELSE [vencimento |-> LastText(lns[k], FindAllFrom(DataRe, lns[k], 1),
                                          <<"N", "/", "A">>),
                  total |-> LastText(lns[k], FindAllFrom(ValorRe, lns[k], 1),
                                     <<"0", ",", "0", "0">>)]
    IN  Fields(HeaderIndexFrom(lns, 1))

infer_bandeira_raw_from_text(texto) ==
    LET t == Upper(texto)
        has_verm == Contains(t, <<"V", "E", "R", "M">>)
        has_amar == Contains(t, <<"A", "M", "A", "R">>)
        has_verde == Contains(t, <<"V", "E", "R", "D", "E">>)
    IN  IF has_verm /\ has_amar
        THEN <<"V", "e", "r", "m", "e", "l", "h", "a", " ", "A", "m", "a", "r", "e", "l", "a">>
        ELSE IF has_verm THEN <<"V", "e", "r", "m", "e", "l", "h", "a">>
        ELSE IF has_amar THEN <<"A", "m", "a", "r", "e", "l", "a">>
        ELSE <<"V", "e", "r", "d", "e">>

\* Bandeira\s*Tarif[a-z]+ria\s+  (re.IGNORECASE)
BandeiraPrefixRe ==
    RSeq(<<RWordCi(<<"b", "a", "n", "d", "e", "i", "r", "a">>), RStar(RSpace),
           RWordCi(<<"t", "a", "r", "i", "f">>), RPlus(RSet(AsciiLower \cup AsciiUpper)),
           RWordCi(<<"r", "i", "a">>), RPlus(RSpace)>>)
\* ([^(\n\r]+)
BandeiraGroupRe == RPlus(RNot({"(", "\n", "\r"}))

\* 2) bandeira
BandeiraRaw(texto) ==
    LET Group(m) ==
            IF m[1] # 0 THEN Strip(Slice(texto, m[1], m[2]))
            ELSE infer_bandeira_raw_from_text(texto)
    IN  Group(SearchGroupFrom(BandeiraPrefixRe, BandeiraGroupRe, texto, 1))

\* \b(VERMELHA|AMARELA|VERDE)\b  (re.IGNORECASE)
FlagNameRe ==
    RSeq(<<RWb,
           RAlt(<<RWordCi(<<"v", "e", "r", "m", "e", "l", "h", "a">>),
                  RWordCi(<<"a", "m", "a", "r", "e", "l", "a">>),
                  RWordCi(<<"v", "e", "r", "d", "e">>)>>),
           RWb>>)

\* the non-empty chunks, each from one flag name to the next
RECURSIVE FlagParts(_, _, _)
FlagParts(s, ms, k) ==
    IF k > Len(ms) THEN <<>>
    ELSE LET stop == IF k + 1 <= Len(ms) THEN ms[k + 1][1] ELSE Len(s) + 1
             chunk == Strip(Slice(s, ms[k][1], stop))
         IN  (IF chunk # <<>> THEN <<chunk>> ELSE <<>>) \o FlagParts(s, ms, k + 1)

split_bandeira_descricao(raw) ==
    LET FirstTwo(parts) ==
            <<IF Len(parts) >= 1 THEN parts[1] ELSE <<>>,
              IF Len(parts) >= 2 THEN parts[2] ELSE <<>>>>
        Split(s, ms) == IF ms = <<>> THEN <<Strip(s), <<>>>> ELSE FirstTwo(FlagParts(s, ms, 1))
        Find(s) == Split(s, FindAllFrom(FlagNameRe, s, 1))
    IN  IF raw = <<>> THEN <<<<>>, <<>>>> ELSE Find(CollapseSpaces(raw))

\* \s+no\s+\(TP\)\s+[\w\s]+\s+  (re.IGNORECASE), the tail of the three balance patterns
SaldoTail ==
    <<RPlus(RSpace), RWordCi(<<"n", "o">>), RPlus(RSpace), RLit("("),
      RWordCi(<<"t", "p">>), RLit(")"), RPlus(RSpace),
      RPlus(RSet(WordChars \cup Spaces)), RPlus(RSpace)>>

\* Saldo\s+Mes\s+no\s+\(TP\)\s+[\w\s]+\s+
SaldoMesRe ==
    RSeq(<<RWordCi(<<"s", "a", "l", "d", "o">>), RPlus(RSpace),
           RWordCi(<<"m", "e", "s">>)>> \o SaldoTail)
\* Saldo\s+Acumulado\s+no\s+\(TP\)\s+[\w\s]+\s+
SaldoAcumuladoRe ==
    RSeq(<<RWordCi(<<"s", "a", "l", "d", "o">>), RPlus(RSpace),
           RWordCi(<<"a", "c", "u", "m", "u", "l", "a", "d", "o">>)>> \o SaldoTail)
\* Saldo\s+a\s+Expirar\s+Proximo\s+Mes\s+no\s+\(TP\)\s+[\w\s]+\s+
SaldoExpirarRe ==
    RSeq(<<RWordCi(<<"s", "a", "l", "d", "o">>), RPlus(RSpace), RWordCi(<<"a">>),
           RPlus(RSpace), RWordCi(<<"e", "x", "p", "i", "r", "a", "r">>), RPlus(RSpace),
           RWordCi(<<"p", "r", "o", "x", "i", "m", "o">>), RPlus(RSpace),
           RWordCi(<<"m", "e", "s">>)>> \o SaldoTail)

\* (\d+) after the pattern, "0" when the pattern is not found
SaldoField(prefix, texto) ==
    LET Group(m) == IF m[1] # 0 THEN Slice(texto, m[1], m[2]) ELSE <<"0">>
    IN  Group(SearchGroupFrom(prefix, RPlus(RDigit), texto, 1))

\* the pattern of each balance
SaldoRes ==
    [saldo_mes |-> SaldoMesRe,
     saldo_acumulado |-> SaldoAcumuladoRe,
     saldo_expirar |-> SaldoExpirarRe]

\* 3) saldos GD
SaldoFields(texto) == [f \in DOMAIN SaldoRes |-> SaldoField(SaldoRes[f], texto)]

---------------------------------------------------------------------------
(* 4) itens: classification of a line and the row built from it            *)

\* any(x in linha_up for x in ["KWH", "WH ", "ENERGIA"])
EnergyKeywords ==
    {<<"K", "W", "H">>, <<"W", "H", " ">>, <<"E", "N", "E", "R", "G", "I", "A">>}

\* ["ILUMINACAO" (with cedilla and tilde), "ILUM P", "MULTA", "JUROS", "DEVOL",
\*  "ILUM PUBLICA", "COBRANCA ILUM"]
SurchargeKeywords ==
    {<<"I", "L", "U", "M", "I", "N", "A", "Ccedil", "Atilde", "O">>,
     <<"I", "L", "U", "M", " ", "P">>,
     <<"M", "U", "L", "T", "A">>,
     <<"J", "U", "R", "O", "S">>,
     <<"D", "E", "V", "O", "L">>,
     <<"I", "L", "U", "M", " ", "P", "U", "B", "L", "I", "C", "A">>,
     <<"C", "O", "B", "R", "A", "N", "C", "A", " ", "I", "L", "U", "M">>}

HasEnergyKeyword(linha) == \E k \in EnergyKeywords : Contains(Upper(linha), k)
HasSurchargeKeyword(linha) == \E k \in SurchargeKeywords : Contains(Upper(linha), k)

\* the two branches tested in the other order
CategorySurchargeFirst(linha) ==
    IF HasSurchargeKeyword(linha) THEN "B"
    ELSE IF HasEnergyKeyword(linha) THEN "A"
    ELSE "none"

\* the branch of the if / elif taken by a line: "A", "B" or "none"
Category(linha) ==
    IF HasEnergyKeyword(linha) THEN "A"
    ELSE IF HasSurchargeKeyword(linha) THEN "B"
    ELSE "none"

\* (?:\s+k?Wh)  (re.IGNORECASE)
WhMarkerRe == RSeq(<<RPlus(RSpace), ROpt(RCi("k")), RCi("w"), RCi("h")>>)
\* (?=\s+-?\d)
NumberAheadRe == RLook(RSeq(<<RPlus(RSpace), ROpt(RLit("-")), RDigit>>))
\* ^(.*?)
LazyHeadRe == RSeq(<<RBol, RLazyStar(RAny)>>)

\* desc of an energy line
ItemDescription(linha) ==
    LET FirstWord(ws) == IF ws # <<>> THEN ws[1] ELSE <<"I", "t", "e", "m">>
        Pick(ms) ==
            IF ms[1][1] # 0 THEN Strip(Slice(linha, 1, ms[1][1]))
            ELSE IF ms[2][1] # 0 THEN Strip(Slice(linha, 1, ms[2][1]))
            ELSE FirstWord(SplitWS(linha))
        Try(heads) ==
            Pick([k \in 1..2 |->
                     FirstGroupOver(heads, <<WhMarkerRe, NumberAheadRe>>[k], linha, 1)])
    IN  Try(Ends(LazyHeadRe, linha, 1))

\* \bPIS\b|\bCOFINS\b|\bCONFINS\b  (re.IGNORECASE)
WithholdingLabelRe ==
    RAlt(<<RSeq(<<RWb, RWordCi(<<"p", "i", "s">>), RWb>>),
           RSeq(<<RWb, RWordCi(<<"c", "o", "f", "i", "n", "s">>), RWb>>),
           RSeq(<<RWb, RWordCi(<<"c", "o", "n", "f", "i", "n", "s">>), RWb>>)>>)

\* re.split(label, linha)[0]
BeforeWithholdingLabel(linha) ==
    LET Before(m) == IF m[1] = 0 THEN linha ELSE Slice(linha, 1, m[1])
    IN  Before(SearchFrom(WithholdingLabelRe, linha, 1))

\* valores_linha of an energy line
EnergyTokens(linha) ==
    extract_numbers_ignoring_percent_and_codes(
        sanitize_line_for_numbers(BeforeWithholdingLabel(linha)))

\* v_taxa of a surcharge line
SurchargeTokens(linha) ==
    extract_numbers_ignoring_percent_and_codes(sanitize_line_for_numbers(linha))

\* (\d+)%
AliquotaRe == RSeq(<<RPlus(RDigit), RLit("%")>>)

Aliquota(linha) ==
    LET Text(m) == IF m[1] # 0 THEN Slice(linha, m[1], m[2]) ELSE <<"0", "%">>
    IN  Text(SearchFrom(AliquotaRe, linha, 1))

\* "kWh" if "KWH" in linha_up else ("Wh" if "WH" in linha_up else "-")
UnitLabel(linha) ==
    IF Contains(Upper(linha), <<"K", "W", "H">>) THEN <<"k", "W", "h">>
    ELSE IF Contains(Upper(linha), <<"W", "H">>) THEN <<"W", "h">>
    ELSE <<"-">>

\* Regra AD.B: the unit tariff rate of a mutated override
TarifaUnitAmarFirst(dsc, v) ==
    IF Contains(Upper(dsc), <<"A", "D", ".", "B", ".", "A", "M", "A", "R">>)
    THEN <<"0", ",", "0", "1", "8", "8", "5", "0">>
    ELSE IF Contains(Upper(dsc), <<"A", "D", ".", "B", ".", "V", "E", "R", "M", "1">>)
    THEN <<"0", ",", "0", "4", "4", "6", "3", "0">>
    ELSE IF Len(v) > 6 THEN v[7] ELSE v[2]

\* tarifa_unit: valores_linha[6] or preco_unit_com_trib, then "Regra AD.B"
TarifaUnit(dsc, v) ==
    IF Contains(Upper(dsc), <<"A", "D", ".", "B", ".", "V", "E", "R", "M", "1">>)
    THEN <<"0", ",", "0", "4", "4", "6", "3", "0">>
    ELSE IF Contains(Upper(dsc), <<"A", "D", ".", "B", ".", "A", "M", "A", "R">>)
    THEN <<"0", ",", "0", "1", "8", "8", "5", "0">>
    ELSE IF Len(v) > 6 THEN v[7] ELSE v[2]

\* the document's fields of a row built from the values the call starts with
DocFieldsFromDefaults(args, dv) ==
    [mes_ref |-> args.mes_ano,
     cliente |-> args.nome_cliente,
     cod_cliente |-> args.cod_cliente_pasta,
     vencimento |-> <<"N", "/", "A">>,
     total_pagar |-> <<"0", ",", "0", "0">>,
     bandeira_desc_1 |-> dv.bandeira_desc_1,
     bandeira_desc_2 |-> dv.bandeira_desc_2,
     saldo_mes |-> <<"0">>,
     saldo_acumulado |-> dv.saldo_acumulado,
     saldo_expirar |-> dv.saldo_expirar]

\* the fields every row takes from the call and from the document
DocFields(args, dv) ==
    [mes_ref |-> args.mes_ano,
     cliente |-> args.nome_cliente,
     cod_cliente |-> args.cod_cliente_pasta,
     vencimento |-> dv.vencimento,
     total_pagar |-> dv.total_fatura_pdf,
     bandeira_desc_1 |-> dv.bandeira_desc_1,
     bandeira_desc_2 |-> dv.bandeira_desc_2,
     saldo_mes |-> dv.saldo_mes,
     saldo_acumulado |-> dv.saldo_acumulado,
     saldo_expirar |-> dv.saldo_expirar]

\* the positional fields with valor_rs and pis_confins taken from each other's token
EnergyItemFieldsSwapped(linha, dsc, v) ==
    [item_fatura |-> dsc,
     unid |-> UnitLabel(linha),
     quantidade |-> v[1],
     preco_unit_com_trib |-> v[2],
     valor_rs |-> v[4],
     pis_confins |-> v[3],
     base_calc_icms |-> v[5],
     aliquota_icms |-> Aliquota(linha),
     icms_valor |-> IF Len(v) > 5 THEN v[6] ELSE <<"0", ",", "0", "0">>,
     tarifa_unit |-> TarifaUnit(dsc, v)]

\* the positional fields of an energy row (valores_linha is 1-based here)
EnergyItemFields(linha, dsc, v) ==
    [item_fatura |-> dsc,
     unid |-> UnitLabel(linha),
     quantidade |-> v[1],
     preco_unit_com_trib |-> v[2],
     valor_rs |-> v[3],
     pis_confins |-> v[4],
     base_calc_icms |-> v[5],
     aliquota_icms |-> Aliquota(linha),
     icms_valor |-> IF Len(v) > 5 THEN v[6] ELSE <<"0", ",", "0", "0">>,
     tarifa_unit |-> TarifaUnit(dsc, v)]

\* the fields of a surcharge row
SurchargeItemFields(linha, v) ==
    [item_fatura |-> Strip(SplitChar(Slice(linha, 1, 61), ",")[1]),
     unid |-> <<"-">>,
     quantidade |-> <<"-">>,
     preco_unit_com_trib |-> <<"-">>,
     valor_rs |-> v[Len(v)],
     pis_confins |-> <<"0", ",", "0", "0">>,
     base_calc_icms |-> <<"0", ",", "0", "0">>,
     aliquota_icms |-> <<"0", "%">>,
     icms_valor |-> <<"0", ",", "0", "0">>,
     tarifa_unit |-> <<"-">>]

\* the dict literal: the document's fields and the item's fields in one record
MakeRow(doc, item) ==
    [k \in DOMAIN doc \cup DOMAIN item |-> IF k \in DOMAIN item THEN item[k] ELSE doc[k]]

\* row of an energy line with its desc and valores_linha
EnergyRow(args, dv, linha, dsc, v) ==
    MakeRow(DocFields(args, dv), EnergyItemFields(linha, dsc, v))

\* row of a surcharge line with its v_taxa
SurchargeRow(args, dv, linha, v) ==
    MakeRow(DocFields(args, dv), SurchargeItemFields(linha, v))

\* the rows one line appends to itens_lista: none or one
LineRows(args, dv, linha) ==
    LET Energy(v) ==
            IF Len(v) >= 5
            THEN <<EnergyRow(args, dv, linha, ItemDescription(linha), v)>>
            ELSE <<>>
        Surcharge(v) == IF v # <<>> THEN <<SurchargeRow(args, dv, linha, v)>> ELSE <<>>
        Branch(c) ==
            IF c = "A" THEN Energy(EnergyTokens(linha))
            ELSE IF c = "B" THEN Surcharge(SurchargeTokens(linha))
            ELSE <<>>
    IN  Branch(Category(linha))

\* the document-level values, fixed before the loop over the lines
DocValues(texto) ==
    LET Values(h, b, sd) ==
            [vencimento |-> h.vencimento,
             total_fatura_pdf |-> h.total,
             bandeira_desc_1 |-> b[1],
             bandeira_desc_2 |-> b[2],
             saldo_mes |-> sd.saldo_mes,
             saldo_acumulado |-> sd.saldo_acumulado,
             saldo_expirar |-> sd.saldo_expirar]
    IN  Values(HeaderFields(Linhas(texto)),
               split_bandeira_descricao(BandeiraRaw(texto)),
               SaldoFields(texto))

RECURSIVE RowsFrom(_, _, _, _)
RowsFrom(args, dv, lns, k) ==
    IF k > Len(lns) THEN <<>>
    ELSE LineRows(args, dv, lns[k]) \o RowsFrom(args, dv, lns, k + 1)

\* extrair_dados_fatura_bytes on a document whose pages have become text; a
\* document that cannot be opened or read raises inside the try and returns []
extrair_dados_fatura_bytes(doc, args) ==
    IF ~doc.readable THEN <<>>
    ELSE LET texto == TextoCompleto(doc.pages)
         IN  RowsFrom(args, DocValues(texto), Linhas(texto), 1)

---------------------------------------------------------------------------
(* The tokenizer as a process: one step per match of NUM_RE.finditer       *)

MaxLineLen == 5

TokAlphabet == {"1", "A", ".", ",", "%", " ", "-"}

RECURSIVE SeqsUpTo(_, _)
SeqsUpTo(S, n) ==
    IF n = 0 THEN {<<>>}
    ELSE LET shorter == SeqsUpTo(S, n - 1)
         IN  shorter \cup {Append(x, c) : x \in {y \in shorter : Len(y) = n - 1}, c \in S}

TokStart(l) ==
    /\ line = l
    /\ tpos = 1
    /\ nums = <<>>
    /\ tspans = <<>>
    /\ tpc = "scan"

TokIdle ==
    /\ line = <<>>
    /\ tpos = 1
    /\ nums = <<>>
    /\ tspans = <<>>
    /\ tpc = "done"

NextMatch == SearchFrom(NUM_RE, line, tpos)

\* finditer is exhausted: return nums
TokReturn ==
    /\ tpc = "scan"
    /\ \E m \in {NextMatch} : m[1] = 0
    /\ tpc' = "done"
    /\ UNCHANGED <<line, tpos, nums, tspans>>
    /\ UNCHANGED <<extVars, hashVars, mainVars>>

\* if j < len(line) and line[j] == "%": continue
TokSkipPercent ==
    /\ tpc = "scan"
    /\ \E m \in {NextMatch} :
           /\ m[1] # 0
           /\ IsPercent(line, m[2])
           /\ tpos' = m[2]
    /\ UNCHANGED <<line, nums, tspans, tpc>>
    /\ UNCHANGED <<extVars, hashVars, mainVars>>

\* if is_letter(prev_ch) or is_letter(next_ch): continue
TokSkipCode ==
    /\ tpc = "scan"
    /\ \E m \in {NextMatch} :
           /\ m[1] # 0
           /\ ~IsPercent(line, m[2])
           /\ IsGluedToLetter(line, m[1], m[2])
           /\ tpos' = m[2]
    /\ UNCHANGED <<line, nums, tspans, tpc>>
    /\ UNCHANGED <<extVars, hashVars, mainVars>>

\* nums.append(s)
TokAppend ==
    /\ tpc = "scan"
    /\ \E m \in {NextMatch} :
           /\ m[1] # 0
           /\ ~IsPercent(line, m[2])
           /\ ~IsGluedToLetter(line, m[1], m[2])
           /\ nums' = Append(nums, Slice(line, m[1], m[2]))
           /\ tspans' = Append(tspans, m)
           /\ tpos' = m[2]
    /\ UNCHANGED <<line, tpc>>
    /\ UNCHANGED <<extVars, hashVars, mainVars>>

TokNext == TokReturn \/ TokSkipPercent \/ TokSkipCode \/ TokAppend

---------------------------------------------------------------------------
(* extrair_dados_fatura_bytes as a process: one step per stage of the try  *)
(* block, and inside the loop one step per stage of a line                 *)

MaxLines == 2
MaxTokens == 8

ExtArgs ==
    [mes_ano |-> <<"2", "0", "2", "6", "-", "0", "1">>,
     nome_cliente |-> <<"A", "C", "M", "E">>,
     cod_cliente_pasta |-> <<"7", "7">>]

\* "10/01/2026 1.234,56"
HeaderVenc ==
    <<"1", "0", "/", "0", "1", "/", "2", "0", "2", "6", " ", "1", ".", "2", "3", "4",
      ",", "5", "6">>
\* "Bandeira Tarifaria Amarela P1 Verde"
HeaderBandeira ==
    <<"B", "a", "n", "d", "e", "i", "r", "a", " ", "T", "a", "r", "i", "f", "a", "r",
      "i", "a", " ", "A", "m", "a", "r", "e", "l", "a", " ", "P", "1", " ", "V", "e",
      "r", "d", "e">>
\* "Saldo Mes no (TP) P 12"
HeaderSaldoMes ==
    <<"S", "a", "l", "d", "o", " ", "M", "e", "s", " ", "n", "o", " ", "(", "T", "P",
      ")", " ", "P", " ", "1", "2">>
\* "Saldo Acumulado no (TP) P 9"
HeaderSaldoAcumulado ==
    <<"S", "a", "l", "d", "o", " ", "A", "c", "u", "m", "u", "l", "a", "d", "o", " ",
      "n", "o", " ", "(", "T", "P", ")", " ", "P", " ", "9">>
\* "Saldo a Expirar Proximo Mes no (TP) P 8"
HeaderSaldoExpirar ==
    <<"S", "a", "l", "d", "o", " ", "a", " ", "E", "x", "p", "i", "r", "a", "r", " ",
      "P", "r", "o", "x", "i", "m", "o", " ", "M", "e", "s", " ", "n", "o", " ", "(",
      "T", "P", ")", " ", "P", " ", "8">>

HeaderVariants ==
    {<<>>,
     <<HeaderVenc, HeaderBandeira, HeaderSaldoMes>>,
     <<HeaderSaldoAcumulado, HeaderSaldoExpirar>>}

\* "Consumo kWh 1 2 3 4 5"
LineEnergy ==
    <<"C", "o", "n", "s", "u", "m", "o", " ", "k", "W", "h", " ", "1", " ", "2", " ",
      "3", " ", "4", " ", "5">>
\* "AD.B.VERM1 kWh 1 2 3 4 5 6 7"
LineEnergyVerm ==
    <<"A", "D", ".", "B", ".", "V", "E", "R", "M", "1", " ", "k", "W", "h", " ", "1",
      " ", "2", " ", "3", " ", "4", " ", "5", " ", "6", " ", "7">>
\* "Juros kWh 1 2": an energy keyword, a surcharge keyword, two numbers
LineEnergyShort == <<"J", "u", "r", "o", "s", " ", "k", "W", "h", " ", "1", " ", "2">>
\* "MULTA 10,50"
LineSurcharge == <<"M", "U", "L", "T", "A", " ", "1", "0", ",", "5", "0">>
\* "JUROS"
LineSurchargeEmpty == <<"J", "U", "R", "O", "S">>
\* "Total 9"
LineOther == <<"T", "o", "t", "a", "l", " ", "9">>

\* the lines of the documents of several lines
SmallCatalog ==
    {LineEnergy, LineEnergyVerm, LineEnergyShort, LineSurcharge, LineSurchargeEmpty,
     LineOther}

\* "Consumo kWh", "X AD.B.VERM1 kWh", "ad.b.amar Wh", "AD.B.AMAR AD.B.VERM1 ENERGIA",
\* "Juros kWh", "MULTA", "Texto", "ENERGIA"
LinePrefixes ==
    {<<"C", "o", "n", "s", "u", "m", "o", " ", "k", "W", "h">>,
     <<"X", " ", "A", "D", ".", "B", ".", "V", "E", "R", "M", "1", " ", "k", "W", "h">>,
     <<"a", "d", ".", "b", ".", "a", "m", "a", "r", " ", "W", "h">>,
     <<"A", "D", ".", "B", ".", "A", "M", "A", "R", " ", "A", "D", ".", "B", ".", "V",
       "E", "R", "M", "1", " ", "E", "N", "E", "R", "G", "I", "A">>,
     <<"J", "u", "r", "o", "s", " ", "k", "W", "h">>,
     <<"M", "U", "L", "T", "A">>,
     <<"T", "e", "x", "t", "o">>,
     <<"E", "N", "E", "R", "G", "I", "A">>}

\* "", " 18%", " PIS 9"
LineSuffixes == {<<>>, <<" ", "1", "8", "%">>, <<" ", "P", "I", "S", " ", "9">>}

\* the numbers written on a line, all different
TokenPool ==
    <<<<"1", "1">>, <<"2", ",", "5", "0">>, <<"3", "0">>, <<"4">>, <<"5">>, <<"6">>,
      <<"7">>, <<"8">>, <<"9">>, <<"1", "0">>>>

\* a prefix, the first n numbers of the pool, a suffix
LineOf(prefix, n, suffix) ==
    Join(<<prefix>> \o SubSeq(TokenPool, 1, n), <<" ">>) \o suffix

\* the lines of the documents of one line
BigCatalog ==
    {LineOf(p, n, x) : p \in LinePrefixes, n \in 0..MaxTokens, x \in LineSuffixes}

Bodies == SeqsUpTo(SmallCatalog, MaxLines) \cup {<<l>> : l \in BigCatalog}

\* the header lines on a first page, the item lines on the next
PagesOf(header, body) ==
    IF header = <<>> THEN <<Join(body, <<"\n">>)>>
    ELSE <<Join(header, <<"\n">>), Join(body, <<"\n">>)>>

ExtDocs ==
    {[readable |-> FALSE, pages |-> <<>>]}
    \cup {[readable |-> TRUE, pages |-> PagesOf(h, b)] : h \in HeaderVariants, b \in Bodies}

\* lines 218-228: the state at the try
ExtStart(d) ==
    /\ pdf = d
    /\ texto_completo = <<>>
    /\ linhas = <<>>
    /\ idx = 0
    /\ epc = "open"
    /\ desc = <<>>
    /\ valores_linha = <<>>
    /\ v_taxa = <<>>
    /\ itens_lista = <<>>
    /\ vencimento = <<"N", "/", "A">>
    /\ total_fatura_pdf = <<"0", ",", "0", "0">>
    /\ bandeira_raw = <<>>
    /\ bandeira_desc_1 = <<>>
    /\ bandeira_desc_2 = <<>>
    /\ saldo_mes = <<"0">>
    /\ saldo_acumulado = <<"0">>
    /\ saldo_expirar = <<"0">>
    /\ origin = <<>>
    /\ failed = {}

ExtIdle ==
    /\ ExtStart([readable |-> FALSE, pages |-> <<>>])

CurDocValues ==
    [vencimento |-> vencimento,
     total_fatura_pdf |-> total_fatura_pdf,
     bandeira_desc_1 |-> bandeira_desc_1,
     bandeira_desc_2 |-> bandeira_desc_2,
     saldo_mes |-> saldo_mes,
     saldo_acumulado |-> saldo_acumulado,
     saldo_expirar |-> saldo_expirar]

lineVars == <<desc, valores_linha, v_taxa>>

\* with pdfplumber.open(...) as pdf: texto_completo, linhas
ExtOpen ==
    /\ epc = "open"
    /\ pdf.readable
    /\ texto_completo' = TextoCompleto(pdf.pages)
    /\ linhas' = Linhas(texto_completo')
    /\ epc' = "header"
    /\ UNCHANGED <<pdf, idx, lineVars, itens_lista, docVars, origin, failed>>
    /\ UNCHANGED <<tokVars, hashVars, mainVars>>

\* pdfplumber raises: except Exception, return itens_lista
ExtOpenRaises ==
    /\ epc = "open"
    /\ ~pdf.readable
    /\ epc' = "return"
    /\ failed' = failed \cup {idx}
    /\ UNCHANGED <<pdf, texto_completo, linhas, idx, lineVars, itens_lista, docVars, origin>>
    /\ UNCHANGED <<tokVars, hashVars, mainVars>>

\* 1) vencimento e total
ExtHeader ==
    /\ epc = "header"
    /\ \E h \in {HeaderFields(linhas)} :
           /\ vencimento' = h.vencimento
           /\ total_fatura_pdf' = h.total
    /\ epc' = "bandeira"
    /\ UNCHANGED <<pdf, texto_completo, linhas, idx, lineVars, itens_lista, bandeira_raw,
                   bandeira_desc_1, bandeira_desc_2, saldo_mes, saldo_acumulado,
                   saldo_expirar, origin, failed>>
    /\ UNCHANGED <<tokVars, hashVars, mainVars>>

\* 2) bandeira
ExtBandeira ==
    /\ epc = "bandeira"
    /\ bandeira_raw' = BandeiraRaw(texto_completo)
    /\ \E b \in {split_bandeira_descricao(bandeira_raw')} :
           /\ bandeira_desc_1' = b[1]
           /\ bandeira_desc_2' = b[2]
    /\ epc' = "saldos"
    /\ UNCHANGED <<pdf, texto_completo, linhas, idx, lineVars, itens_lista, vencimento,
                   total_fatura_pdf, saldo_mes, saldo_acumulado, saldo_expirar, origin,
                   failed>>
    /\ UNCHANGED <<tokVars, hashVars, mainVars>>

\* 3) saldos GD, then the loop starts
ExtSaldos ==
    /\ epc = "saldos"
    /\ \E sd \in {SaldoFields(texto_completo)} :
           /\ saldo_mes' = sd.saldo_mes
           /\ saldo_acumulado' = sd.saldo_acumulado
           /\ saldo_expirar' = sd.saldo_expirar
    /\ idx' = 1
    /\ epc' = "classify"
    /\ UNCHANGED <<pdf, texto_completo, linhas, lineVars, itens_lista, vencimento,
                   total_fatura_pdf, bandeira_raw, bandeira_desc_1, bandeira_desc_2,
                   origin, failed>>
    /\ UNCHANGED <<tokVars, hashVars, mainVars>>

InLoop(stage) == epc = stage /\ idx <= Len(linhas)

\* the next iteration of: for linha in linhas
NextLine == idx' = idx + 1 /\ epc' = "classify"

\* the loop is over: return itens_lista
ExtReturn ==
    /\ epc = "classify"
    /\ idx > Len(linhas)
    /\ epc' = "return"
    /\ UNCHANGED <<pdf, texto_completo, linhas, idx, lineVars, itens_lista, docVars,
                   origin, failed>>
    /\ UNCHANGED <<tokVars, hashVars, mainVars>>

\* if any(x in linha_up for x in ["KWH", "WH ", "ENERGIA"])
ClassifyEnergy ==
    /\ InLoop("classify")
    /\ Category(linhas[idx]) = "A"
    /\ epc' = "describe"
    /\ UNCHANGED <<pdf, texto_completo, linhas, idx, lineVars, itens_lista, docVars,
                   origin, failed>>
    /\ UNCHANGED <<tokVars, hashVars, mainVars>>

\* elif any(x in linha_up for x in [...])
ClassifySurcharge ==
    /\ InLoop("classify")
    /\ Category(linhas[idx]) = "B"
    /\ epc' = "tokenizeB"
    /\ UNCHANGED <<pdf, texto_completo, linhas, idx, lineVars, itens_lista, docVars,
                   origin, failed>>
    /\ UNCHANGED <<tokVars, hashVars, mainVars>>

\* neither branch
ClassifyOther ==
    /\ InLoop("classify")
    /\ Category(linhas[idx]) = "none"
    /\ NextLine
    /\ UNCHANGED <<pdf, texto_completo, linhas, lineVars, itens_lista, docVars, origin,
                   failed>>
    /\ UNCHANGED <<tokVars, hashVars, mainVars>>

\* desc, desc_up
DescribeEnergy ==
    /\ InLoop("describe")
    /\ desc' = ItemDescription(linhas[idx])
    /\ epc' = "tokenizeA"
    /\ UNCHANGED <<pdf, texto_completo, linhas, idx, valores_linha, v_taxa, itens_lista,
                   docVars, origin, failed>>
    /\ UNCHANGED <<tokVars, hashVars, mainVars>>

\* linha_numeros, valores_linha; if len(valores_linha) >= 5
TokenizeEnergy ==
    /\ InLoop("tokenizeA")
    /\ valores_linha' = EnergyTokens(linhas[idx])
    /\ IF Len(valores_linha') >= 5
       THEN epc' = "buildA" /\ idx' = idx
       ELSE NextLine
    /\ UNCHANGED <<pdf, texto_completo, linhas, desc, v_taxa, itens_lista, docVars, origin,
                   failed>>
    /\ UNCHANGED <<tokVars, hashVars, mainVars>>

\* try: row = {...}; itens_lista.append(row)
BuildEnergy ==
    /\ InLoop("buildA")
    /\ itens_lista' =
           Append(itens_lista,
                  EnergyRow(ExtArgs, CurDocValues, linhas[idx], desc, valores_linha))
    /\ origin' = Append(origin, [idx |-> idx, kind |-> "A", tokens |-> valores_linha])
    /\ NextLine
    /\ UNCHANGED <<pdf, texto_completo, linhas, lineVars, docVars, failed>>
    /\ UNCHANGED <<tokVars, hashVars, mainVars>>

\* v_taxa; if v_taxa
TokenizeSurcharge ==
    /\ InLoop("tokenizeB")
    /\ v_taxa' = SurchargeTokens(linhas[idx])
    /\ IF v_taxa' # <<>>
       THEN epc' = "buildB" /\ idx' = idx
       ELSE NextLine
    /\ UNCHANGED <<pdf, texto_completo, linhas, desc, valores_linha, itens_lista, docVars,
                   origin, failed>>
    /\ UNCHANGED <<tokVars, hashVars, mainVars>>

\* row = {...}; itens_lista.append(row)
BuildSurcharge ==
    /\ InLoop("buildB")
    /\ itens_lista' =
           Append(itens_lista, SurchargeRow(ExtArgs, CurDocValues, linhas[idx], v_taxa))
    /\ origin' = Append(origin, [idx |-> idx, kind |-> "B", tokens |-> v_taxa])
    /\ NextLine
    /\ UNCHANGED <<pdf, texto_completo, linhas, lineVars, docVars, failed>>
    /\ UNCHANGED <<tokVars, hashVars, mainVars>>

\* an exception inside the inner try (lines 288-331): except: continue
RaiseInRowBuild ==
    /\ InLoop("buildA")
    /\ failed' = failed \cup {idx}
    /\ NextLine
    /\ UNCHANGED <<pdf, texto_completo, linhas, lineVars, itens_lista, docVars, origin>>
    /\ UNCHANGED <<tokVars, hashVars, mainVars>>

\* the stages of the outer try that no inner try covers
OuterStages ==
    {"header", "bandeira", "saldos", "classify", "describe", "tokenizeA", "tokenizeB",
     "buildB"}

\* an exception anywhere else in the outer try: except Exception (line 362), then
\* return itens_lista
RaiseInTry ==
    /\ epc \in OuterStages
    /\ epc \in {"header", "bandeira", "saldos"} \/ idx <= Len(linhas)
    /\ failed' = failed \cup {idx}
    /\ epc' = "return"
    /\ UNCHANGED <<pdf, texto_completo, linhas, idx, lineVars, itens_lista, docVars,
                   origin>>
    /\ UNCHANGED <<tokVars, hashVars, mainVars>>

ExtNext ==
    \/ ExtOpen \/ ExtOpenRaises \/ ExtHeader \/ ExtBandeira \/ ExtSaldos \/ ExtReturn
    \/ ClassifyEnergy \/ ClassifySurcharge \/ ClassifyOther
    \/ DescribeEnergy \/ TokenizeEnergy \/ BuildEnergy
    \/ TokenizeSurcharge \/ BuildSurcharge
    \/ RaiseInRowBuild \/ RaiseInTry

---------------------------------------------------------------------------
(* make_row_hash and to_supabase_rows                                      *)

\* key_fields, in the order of lines 113-122
KeyFields ==
    <<"mes_ref", "cliente", "cod_cliente", "vencimento", "item_fatura", "unid",
      "quantidade", "preco_unit_com_trib", "valor_rs", "tarifa_unit">>

\* hashlib.sha256(raw).hexdigest(), taken as injective: the digest of raw is raw
\* under the name of the function
Sha256Hex(raw) == <<"sha256", raw>>

\* "|".join([str(x).strip() for x in key_fields])
KeyString(d) == Join([k \in DOMAIN KeyFields |-> Strip(d[KeyFields[k]])], <<"|">>)

make_row_hash(d) == Sha256Hex(KeyString(d))

\* the 20 columns of a row and its row_hash
to_supabase_rows(rs) ==
    [k \in DOMAIN rs |-> MakeRow(rs[k], [row_hash |-> make_row_hash(rs[k])])]

MaxRows == 2

\* "Consumo kWh 1 2 3 9 5": LineEnergy with another PIS/CONFINS
LineEnergyOtherPis ==
    <<"C", "o", "n", "s", "u", "m", "o", " ", "k", "W", "h", " ", "1", " ", "2", " ",
      "3", " ", "9", " ", "5">>
\* "Consumo kWh 7 2 3 4 5": LineEnergy with another quantity
LineEnergyOtherQtd ==
    <<"C", "o", "n", "s", "u", "m", "o", " ", "k", "W", "h", " ", "7", " ", "2", " ",
      "3", " ", "4", " ", "5">>

\* customer folders "a" and "a|b"; files "b.pdf", "b|b.pdf" and "b .pdf"
HashClientes == {<<"a">>, <<"a", "|", "b">>}
HashCods == {<<"b">>, <<"b", "|", "b">>, <<"b", " ">>}

\* rows the extraction returns for one-line documents of those folders and files
HashRows ==
    {extrair_dados_fatura_bytes(
         [readable |-> TRUE, pages |-> <<l>>],
         [mes_ano |-> ExtArgs.mes_ano, nome_cliente |-> c, cod_cliente_pasta |-> k])[1] :
       l \in {LineEnergy, LineEnergyOtherPis, LineEnergyOtherQtd},
       c \in HashClientes, k \in HashCods}

HashStart(rs) ==
    /\ hrows = rs
    /\ hout = <<>>
    /\ hpc = "call"

HashIdle ==
    /\ hrows = <<>>
    /\ hout = <<>>
    /\ hpc = "done"

\* rows = to_supabase_rows(consolidado)
HashCall ==
    /\ hpc = "call"
    /\ hout' = to_supabase_rows(hrows)
    /\ hpc' = "done"
    /\ UNCHANGED hrows
    /\ UNCHANGED <<tokVars, extVars, mainVars>>

---------------------------------------------------------------------------
(* main: listing, download and extraction of each document, upsert         *)

MaxDocs == 3
MaxBatch == 2

\* "MULTA 10,50" and "AD.B.VERM1 kWh 1 2 3 4 5 6 7" on one page
PageTwoItems == Join(<<LineSurcharge, LineEnergyVerm>>, <<"\n">>)

\* the objects of the month's folders: the customer and the code of their
\* names, whether the download answers 2xx, and the document behind them
MainObjects ==
    {[cliente |-> <<"A", "C", "M", "E">>, cod |-> <<"1", "1">>, download_ok |-> TRUE,
      doc |-> [readable |-> TRUE, pages |-> <<LineEnergy>>]],
     [cliente |-> <<"A", "C", "M", "E">>, cod |-> <<"1", "2">>, download_ok |-> TRUE,
      doc |-> [readable |-> TRUE, pages |-> <<PageTwoItems>>]],
     [cliente |-> <<"A", "C", "M", "E">>, cod |-> <<"1", "3">>, download_ok |-> FALSE,
      doc |-> [readable |-> TRUE, pages |-> <<LineEnergy>>]],
     [cliente |-> <<"B", "E", "T", "A">>, cod |-> <<"1", "4">>, download_ok |-> TRUE,
      doc |-> [readable |-> FALSE, pages |-> <<>>]],
     [cliente |-> <<"B", "E", "T", "A">>, cod |-> <<"1", "5">>, download_ok |-> TRUE,
      doc |-> [readable |-> TRUE, pages |-> <<LineOther>>]]}

\* what list_month_pdfs may return
Listings == SeqsUpTo(MainObjects, MaxDocs)

\* dados = extrair_dados_fatura_bytes(pdf_bytes, mes_ref, cliente, cod)
Dados(obj) ==
    extrair_dados_fatura_bytes(
        obj.doc,
        [mes_ano |-> ExtArgs.mes_ano, nome_cliente |-> obj.cliente,
         cod_cliente_pasta |-> obj.cod])

\* the slice taken with an inclusive upper end: rows[i : i + batch_size + 1]
BatchInclusive(rs, i, n) ==
    SubSeq(rs, i + 1, IF i + n + 1 < Len(rs) THEN i + n + 1 ELSE Len(rs))

\* rows[i:i + batch_size], i counted from 0
Batch(rs, i, n) == SubSeq(rs, i + 1, IF i + n < Len(rs) THEN i + n ELSE Len(rs))

MainStart ==
    /\ mpc = "config"
    /\ pdfs = <<>>
    /\ doc_i = 0
    /\ consolidado = <<>>
    /\ rows = <<>>
    /\ batch_size = 1
    /\ batch_i = 0
    /\ total = 0
    /\ sent = <<>>
    /\ outcome = "running"
    /\ requests = <<>>

MainIdle ==
    /\ mpc = "end"
    /\ pdfs = <<>>
    /\ doc_i = 0
    /\ consolidado = <<>>
    /\ rows = <<>>
    /\ batch_size = 1
    /\ batch_i = 0
    /\ total = 0
    /\ sent = <<>>
    /\ outcome = "idle"
    /\ requests = <<>>

mainFrame == <<tokVars, extVars, hashVars>>

\* if not supa_url / supa_key / table / bucket: raise SystemExit
MainConfigMissing ==
    /\ mpc = "config"
    /\ mpc' = "end"
    /\ outcome' = "SystemExit"
    /\ UNCHANGED <<pdfs, doc_i, consolidado, rows, batch_size, batch_i, total, sent,
                   requests>>
    /\ UNCHANGED mainFrame

\* [ENV OK]
MainConfigOk ==
    /\ mpc = "config"
    /\ mpc' = "list"
    /\ UNCHANGED <<pdfs, doc_i, consolidado, rows, batch_size, batch_i, total, sent,
                   outcome, requests>>
    /\ UNCHANGED mainFrame

\* list_month_pdfs: a storage_list_all answers non-2xx and raises RuntimeError,
\* which main does not catch
MainListRaises ==
    /\ mpc = "list"
    /\ requests' = Append(requests, <<"list">>)
    /\ mpc' = "end"
    /\ outcome' = "RuntimeError: Storage list"
    /\ UNCHANGED <<pdfs, doc_i, consolidado, rows, batch_size, batch_i, total, sent>>
    /\ UNCHANGED mainFrame

\* pdfs = list_month_pdfs(...); if not pdfs: return
MainList ==
    /\ mpc = "list"
    /\ requests' = Append(requests, <<"list">>)
    /\ \E l \in Listings :
           /\ pdfs' = l
           /\ IF l = <<>>
              THEN mpc' = "end" /\ outcome' = "no pdfs" /\ doc_i' = doc_i
              ELSE mpc' = "loop" /\ outcome' = outcome /\ doc_i' = 1
    /\ UNCHANGED <<consolidado, rows, batch_size, batch_i, total, sent>>
    /\ UNCHANGED mainFrame

\* the loop over the documents stops at the first failure
MainDocRaisesBreaks ==
    /\ mpc = "loop"
    /\ doc_i <= Len(pdfs)
    /\ ~pdfs[doc_i].download_ok
    /\ requests' = Append(requests, <<"download", doc_i>>)
    /\ doc_i' = Len(pdfs) + 1
    /\ UNCHANGED <<mpc, pdfs, consolidado, rows, batch_size, batch_i, total, sent,
                   outcome>>
    /\ UNCHANGED mainFrame

\* storage_download raises: except Exception, continue
MainDocRaises ==
    /\ mpc = "loop"
    /\ doc_i <= Len(pdfs)
    /\ ~pdfs[doc_i].download_ok
    /\ requests' = Append(requests, <<"download", doc_i>>)
    /\ doc_i' = doc_i + 1
    /\ UNCHANGED <<mpc, pdfs, consolidado, rows, batch_size, batch_i, total, sent,
                   outcome>>
    /\ UNCHANGED mainFrame

\* pdf_bytes = storage_download(...); dados = extrair_dados_fatura_bytes(...);
\* consolidado.extend(dados)
MainDoc ==
    /\ mpc = "loop"
    /\ doc_i <= Len(pdfs)
    /\ pdfs[doc_i].download_ok
    /\ requests' = Append(requests, <<"download", doc_i>>)
    /\ consolidado' = consolidado \o Dados(pdfs[doc_i])
    /\ doc_i' = doc_i + 1
    /\ UNCHANGED <<mpc, pdfs, rows, batch_size, batch_i, total, sent, outcome>>
    /\ UNCHANGED mainFrame

\* if not consolidado: return
MainNoData ==
    /\ mpc = "loop"
    /\ doc_i > Len(pdfs)
    /\ consolidado = <<>>
    /\ mpc' = "end"
    /\ outcome' = "no data"
    /\ UNCHANGED <<pdfs, doc_i, consolidado, rows, batch_size, batch_i, total, sent,
                   requests>>
    /\ UNCHANGED mainFrame

\* rows = to_supabase_rows(consolidado); if args.dry_run: return
MainDryRun ==
    /\ mpc = "loop"
    /\ doc_i > Len(pdfs)
    /\ consolidado # <<>>
    /\ rows' = to_supabase_rows(consolidado)
    /\ mpc' = "end"
    /\ outcome' = "dry run"
    /\ UNCHANGED <<pdfs, doc_i, consolidado, batch_size, batch_i, total, sent, requests>>
    /\ UNCHANGED mainFrame

\* rows = to_supabase_rows(consolidado); supabase_upsert(..., batch_size=args.batch_size)
MainUpsert ==
    /\ mpc = "loop"
    /\ doc_i > Len(pdfs)
    /\ consolidado # <<>>
    /\ rows' = to_supabase_rows(consolidado)
    /\ batch_size' \in 1..MaxBatch
    /\ batch_i' = 0
    /\ total' = 0
    /\ mpc' = "upsert"
    /\ UNCHANGED <<pdfs, doc_i, consolidado, sent, outcome, requests>>
    /\ UNCHANGED mainFrame

\* a rejected batch is skipped and the loop of supabase_upsert goes on
UpsertBatchRejectedSkips ==
    /\ mpc = "upsert"
    /\ batch_i < Len(rows)
    /\ requests' = Append(requests, <<"post", batch_i>>)
    /\ batch_i' = batch_i + batch_size
    /\ UNCHANGED <<mpc, pdfs, doc_i, consolidado, rows, batch_size, total, sent, outcome>>
    /\ UNCHANGED mainFrame

\* requests.post answers non-2xx: raise RuntimeError, which main does not catch
UpsertBatchRejected ==
    /\ mpc = "upsert"
    /\ batch_i < Len(rows)
    /\ requests' = Append(requests, <<"post", batch_i>>)
    /\ mpc' = "end"
    /\ outcome' = "RuntimeError: upsert"
    /\ UNCHANGED <<pdfs, doc_i, consolidado, rows, batch_size, batch_i, total, sent>>
    /\ UNCHANGED mainFrame

\* requests.post answers 2xx: total += len(batch)
UpsertBatchAccepted ==
    /\ mpc = "upsert"
    /\ batch_i < Len(rows)
    /\ requests' = Append(requests, <<"post", batch_i>>)
    /\ sent' = Append(sent, Batch(rows, batch_i, batch_size))
    /\ total' = total + Len(Batch(rows, batch_i, batch_size))
    /\ batch_i' = batch_i + batch_size
    /\ UNCHANGED <<mpc, pdfs, doc_i, consolidado, rows, batch_size, outcome>>
    /\ UNCHANGED mainFrame

\* return total; [OK] Upsert concluido
UpsertReturn ==
    /\ mpc = "upsert"
    /\ batch_i >= Len(rows)
    /\ mpc' = "end"
    /\ outcome' = "ok"
    /\ UNCHANGED <<pdfs, doc_i, consolidado, rows, batch_size, batch_i, total, sent,
                   requests>>
    /\ UNCHANGED mainFrame

---------------------------------------------------------------------------
(* Specifications                                                          *)

\* the tokenizer on every line of up to MaxLineLen characters
TokInit ==
    /\ \E l \in SeqsUpTo(TokAlphabet, MaxLineLen) : TokStart(l)
    /\ ExtIdle /\ HashIdle /\ MainIdle
SpecTok == TokInit /\ [][TokNext]_vars

\* the extraction on every document of ExtDocs
Init ==
    /\ \E d \in ExtDocs : ExtStart(d)
    /\ TokIdle /\ HashIdle /\ MainIdle
Next == ExtNext
Spec == Init /\ [][Next]_vars

\* to_supabase_rows on every list of up to MaxRows rows of HashRows
HashInit ==
    /\ \E rs \in SeqsUpTo(HashRows, MaxRows) : HashStart(rs)
    /\ TokIdle /\ ExtIdle /\ MainIdle
HashNext == HashCall
SpecHash == HashInit /\ [][HashNext]_vars

\* main on every listing of up to MaxDocs objects
MainInit == MainStart /\ TokIdle /\ ExtIdle /\ HashIdle
MainNext ==
    \/ MainConfigMissing \/ MainConfigOk \/ MainListRaises \/ MainList
    \/ MainDocRaises \/ MainDoc \/ MainNoData \/ MainDryRun \/ MainUpsert
    \/ UpsertBatchRejected \/ UpsertBatchAccepted \/ UpsertReturn
SpecMain == MainInit /\ [][MainNext]_vars

---------------------------------------------------------------------------
(* Properties of make_row_hash                                             *)

\* C2: two rows have the same fingerprint exactly when they have the same
\* values in the 10 key fields, the digest being injective: no other field
\* changes the fingerprint, and a change of a key field always does.
C2_FingerprintIffKeyFields ==
    hpc = "done" =>
        \A j, k \in DOMAIN hout :
            (hout[j].row_hash = hout[k].row_hash)
                <=> (\A f \in DOMAIN KeyFields :
                        hrows[j][KeyFields[f]] = hrows[k][KeyFields[f]])

---------------------------------------------------------------------------
(* Properties of main                                                      *)

\* the rows a document of the listing gives when it is the only one
RowsAlone(obj) == IF obj.download_ok /\ obj.doc.readable THEN Dados(obj) ELSE <<>>

\* the rows of the first n documents of the listing, one document after another
RECURSIVE RowsUpTo(_, _)
RowsUpTo(objs, n) ==
    IF n = 0 THEN <<>> ELSE RowsUpTo(objs, n - 1) \o RowsAlone(objs[n])

\* the rows of the batches, one batch after another
RECURSIVE Flatten(_, _)
Flatten(bs, n) == IF n = 0 THEN <<>> ELSE Flatten(bs, n - 1) \o bs[n]

\* every extracted row has been handed to the sink
AllHanded == Flatten(sent, Len(sent)) = to_supabase_rows(consolidado)

\* C6: a document that cannot be downloaded or cannot be read gives no row,
\* and it stops nothing: the loop visits every document of the listing once, in
\* order, and after the n-th the consolidated rows are those the first n give
\* each on its own.
C6_FaultIsolationPerDocument ==
    /\ mpc = "loop" =>
           /\ doc_i \in 1..(Len(pdfs) + 1)
           /\ outcome = "running"
           /\ consolidado = RowsUpTo(pdfs, doc_i - 1)
           /\ requests = <<<<"list">>>> \o [k \in 1..(doc_i - 1) |-> <<"download", k>>]
    /\ mpc \in {"upsert", "end"} /\ pdfs # <<>> => doc_i = Len(pdfs) + 1

\* three documents, the second one failing to download, the others giving the
\* one row and the two rows they give alone
C6_Witness ==
    /\ mpc = "loop"
    /\ doc_i = 4
    /\ pdfs[1].download_ok /\ Len(Dados(pdfs[1])) = 1
    /\ ~pdfs[2].download_ok
    /\ pdfs[3].download_ok /\ Len(Dados(pdfs[3])) = 2
    /\ Len(consolidado) = 3
    /\ consolidado[3].cod_cliente = pdfs[3].cod

Posts == SelectSeq(requests, LAMBDA r : r[1] = "post")

\* the k-th batch of rs cut in batches of n rows
NthBatch(rs, n, k) ==
    SubSeq(rs, (k - 1) * n + 1, IF k * n < Len(rs) THEN k * n ELSE Len(rs))

\* C11: supabase_upsert, for a batch_size of 1 or more, sends the rows in their
\* order, each row in exactly one batch and every batch of 1 to batch_size
\* rows: the k-th accepted batch is the k-th slice of the rows, one post per
\* batch. A rejected batch k raises at once: batches 1..k-1 are sent and stay
\* sent, batch k is the last post and rows remain unsent. On success the
\* total returned is len(rows) and the batches together are the rows.
C11_UpsertBatches ==
    mpc = "upsert" \/ outcome \in {"RuntimeError: upsert", "ok"} =>
        /\ batch_size >= 1
        /\ \A k \in DOMAIN sent :
               /\ Len(sent[k]) \in 1..batch_size
               /\ sent[k] = NthBatch(rows, batch_size, k)
        /\ Flatten(sent, Len(sent)) = SubSeq(rows, 1, total)
        /\ total = (IF Len(sent) * batch_size < Len(rows)
                     THEN Len(sent) * batch_size ELSE Len(rows))
        /\ \A k \in DOMAIN Posts : Posts[k] = <<"post", (k - 1) * batch_size>>
        /\ mpc = "upsert" => Len(Posts) = Len(sent) /\ outcome = "running"
        /\ outcome = "RuntimeError: upsert" =>
               /\ mpc = "end"
               /\ Len(Posts) = Len(sent) + 1
               /\ total < Len(rows)
        /\ outcome = "ok" =>
               /\ mpc = "end"
               /\ Len(Posts) = Len(sent)
               /\ total = Len(rows)
               /\ Flatten(sent, Len(sent)) = rows

\* five rows in batches of two: the first two batches accepted, the third, of
\* the one row left, accepted too, and the call returns 5
C11_Witness ==
    /\ outcome = "ok"
    /\ batch_size = 2
    /\ Len(rows) = 5
    /\ Len(sent) = 3
    /\ Len(sent[3]) = 1
    /\ total = 5

---------------------------------------------------------------------------
(* Properties of extract_numbers_ignoring_percent_and_codes                *)

AllDigits(s, i, e) == i < e /\ \A j \in i..(e - 1) : At(s, j) \in Digits

\* [i, e) is a number written without thousands separators, between white
\* space or the ends of the line, and no % follows it: digits, then at most a
\* comma and 2 to 6 digits
IsPlainLiteral(s, i, e) ==
    /\ At(s, i - 1) \in {"", " "}
    /\ At(s, e) \in {"", " "}
    /\ ~IsPercent(s, e)
    /\ \/ AllDigits(s, i, e)
       \/ \E c \in (i + 1)..(e - 3) :
              /\ AllDigits(s, i, c)
              /\ At(s, c) = ","
              /\ AllDigits(s, c + 1, e)
              /\ e - (c + 1) <= 6

\* C9: when the tokenizer returns, every number written without thousands
\* separators, of any length, is one token of the output, equal to the whole of it.
C9_PlainLiteralIsOneToken ==
    tpc = "done" =>
        \A i \in 1..Len(line), e \in 2..(Len(line) + 1) :
            IsPlainLiteral(line, i, e) =>
                \E k \in DOMAIN tspans :
                    tspans[k] = <<i, e>> /\ nums[k] = Slice(line, i, e)

\* the run of digits around position i, as <<first, one past the last>>
DigitRun(s, i) ==
    <<Leftmost({a \in 1..i : AllDigits(s, a, i + 1)}),
      i + RunLength(RDigit, s, i)>>

\* C10: no token of the output lies in a run of digits that has a letter right
\* before it or right after it.
C10_NoDigitsOfCodes ==
    \A k \in DOMAIN tspans :
        \E run \in {DigitRun(line, IF At(line, tspans[k][1]) = "-"
                                    THEN tspans[k][1] + 1 ELSE tspans[k][1])} :
            ~is_letter(At(line, run[1] - 1)) /\ ~is_letter(At(line, run[2]))

---------------------------------------------------------------------------
(* Properties of extrair_dados_fatura_bytes                                *)

CodeVerm1 == <<"A", "D", ".", "B", ".", "V", "E", "R", "M", "1">>
CodeAmar == <<"A", "D", ".", "B", ".", "A", "M", "A", "R">>
RateVerm1 == <<"0", ",", "0", "4", "4", "6", "3", "0">>
RateAmar == <<"0", ",", "0", "1", "8", "8", "5", "0">>
ZeroValue == <<"0", ",", "0", "0">>

HasCode(dsc) == Contains(Upper(dsc), CodeVerm1) \/ Contains(Upper(dsc), CodeAmar)

\* the rows built so far from lines of category c
RowsOfKind(c) == {k \in DOMAIN origin : origin[k].kind = c}

\* C1: every row of the list, energy and surcharge alike, carries the due
\* date, the total, the two tariff sub-descriptions and the three balances the
\* document has in every state of the call: they are set before the first line
\* is classified and no line changes them.
C1_DocumentFieldsBroadcast ==
    /\ Len(origin) = Len(itens_lista)
    /\ \A k \in DOMAIN itens_lista :
           /\ itens_lista[k].vencimento = vencimento
           /\ itens_lista[k].total_pagar = total_fatura_pdf
           /\ itens_lista[k].bandeira_desc_1 = bandeira_desc_1
           /\ itens_lista[k].bandeira_desc_2 = bandeira_desc_2
           /\ itens_lista[k].saldo_mes = saldo_mes
           /\ itens_lista[k].saldo_acumulado = saldo_acumulado
           /\ itens_lista[k].saldo_expirar = saldo_expirar

\* a document with a header returns an energy row and a surcharge row
C1_Witness ==
    /\ epc = "return"
    /\ RowsOfKind("A") # {}
    /\ RowsOfKind("B") # {}
    /\ vencimento # <<"N", "/", "A">>
    /\ total_fatura_pdf # ZeroValue
    /\ saldo_mes # <<"0">>
    /\ bandeira_desc_2 # <<>>

\* C3: the row of an energy line whose token list t has at least 5 tokens has
\* quantity t[0], unit price t[1], value t[2], withholding-tax amount t[3] and
\* tax base t[4]; its tax amount is t[5] when there is one and "0,00" otherwise;
\* with no surcharge-program code in the description its unit tariff rate is
\* t[6] when there is one and t[1] otherwise (t is 1-based below).
C3_PositionalFields ==
    \A k \in RowsOfKind("A") :
        \E t \in {origin[k].tokens} :
            /\ t = EnergyTokens(linhas[origin[k].idx])
            /\ Len(t) >= 5
            /\ itens_lista[k].quantidade = t[1]
            /\ itens_lista[k].preco_unit_com_trib = t[2]
            /\ itens_lista[k].valor_rs = t[3]
            /\ itens_lista[k].pis_confins = t[4]
            /\ itens_lista[k].base_calc_icms = t[5]
            /\ itens_lista[k].icms_valor = (IF Len(t) > 5 THEN t[6] ELSE ZeroValue)
            /\ ~HasCode(itens_lista[k].item_fatura)
                   => itens_lista[k].tarifa_unit = (IF Len(t) > 6 THEN t[7] ELSE t[2])

\* a row without a code built from seven or more tokens, all different
C3_Witness ==
    /\ epc = "return"
    /\ \E k \in RowsOfKind("A") :
           /\ Len(origin[k].tokens) > 6
           /\ ~HasCode(itens_lista[k].item_fatura)
           /\ itens_lista[k].tarifa_unit = origin[k].tokens[7]
           /\ \A i, j \in 1..7 : i # j => origin[k].tokens[i] # origin[k].tokens[j]

\* C4: a line yields at most one row and the energy branch is tested first: a
\* row of a line with an energy keyword is an energy row of at least 5 tokens,
\* so such a line with fewer tokens yields nothing, whatever surcharge keyword
\* and numbers it holds; a row of any other line is a surcharge row of a line
\* with a surcharge keyword, so a line with neither keyword yields nothing.
C4_OneBranchPerLine ==
    /\ \A j, k \in DOMAIN origin : j < k => origin[j].idx < origin[k].idx
    /\ \A k \in DOMAIN origin :
           IF HasEnergyKeyword(linhas[origin[k].idx])
           THEN origin[k].kind = "A" /\ Len(origin[k].tokens) >= 5
           ELSE origin[k].kind = "B" /\ HasSurchargeKeyword(linhas[origin[k].idx])

\* the call returns, nothing having raised, with no row for a line that has an
\* energy keyword, a surcharge keyword and between one and four numbers
C4_Witness ==
    /\ epc = "return"
    /\ failed = {}
    /\ \E i \in DOMAIN linhas :
           /\ HasEnergyKeyword(linhas[i])
           /\ HasSurchargeKeyword(linhas[i])
           /\ Len(SurchargeTokens(linhas[i])) \in 1..4
           /\ \A k \in DOMAIN origin : origin[k].idx # i

\* C5: when the processing of a line raises, at any of its stages and in
\* either branch, only that line's row is missing from the result: every other
\* line of the document has the rows it yields.
C5_FaultIsolationPerLine ==
    epc = "return" /\ failed # {} /\ failed \subseteq DOMAIN linhas
        => \A i \in DOMAIN linhas \ failed :
               Len(LineRows(ExtArgs, CurDocValues, linhas[i]))
                   = Cardinality({k \in DOMAIN origin : origin[k].idx = i})

\* C8: on an energy row whose description holds AD.B.VERM1 or AD.B.AMAR the
\* unit tariff rate is "0,044630" for VERM1, else "0,018850" for AMAR, and every
\* other item field is what the line and its tokens give without the code.
C8_OverrideOnlyTarifaUnit ==
    \A k \in RowsOfKind("A") :
        HasCode(itens_lista[k].item_fatura) =>
            \E t \in {origin[k].tokens}, l \in {linhas[origin[k].idx]} :
                /\ itens_lista[k].tarifa_unit =
                       (IF Contains(Upper(itens_lista[k].item_fatura), CodeVerm1)
                        THEN RateVerm1 ELSE RateAmar)
                /\ itens_lista[k].item_fatura = ItemDescription(l)
                /\ itens_lista[k].unid = UnitLabel(l)
                /\ itens_lista[k].aliquota_icms = Aliquota(l)
                /\ itens_lista[k].quantidade = t[1]
                /\ itens_lista[k].preco_unit_com_trib = t[2]
                /\ itens_lista[k].valor_rs = t[3]
                /\ itens_lista[k].pis_confins = t[4]
                /\ itens_lista[k].base_calc_icms = t[5]
                /\ itens_lista[k].icms_valor = (IF Len(t) > 5 THEN t[6] ELSE ZeroValue)

\* a row whose description holds both codes, built from seven tokens or more
C8_Witness ==
    /\ epc = "return"
    /\ \E k \in RowsOfKind("A") :
           /\ Contains(Upper(itens_lista[k].item_fatura), CodeVerm1)
           /\ Contains(Upper(itens_lista[k].item_fatura), CodeAmar)
           /\ Len(origin[k].tokens) > 6
           /\ itens_lista[k].tarifa_unit = RateVerm1
           /\ itens_lista[k].tarifa_unit # origin[k].tokens[7]

\* the process and the function agree on a run in which nothing raised
ExtAgrees ==
    epc = "return" /\ (failed = {} \/ ~pdf.readable)
        => itens_lista = extrair_dados_fatura_bytes(pdf, ExtArgs)
=============================================================================
